---- MODULE Spec2Model ----
(***************************************************************************)
(* Model of the amber lost-and-found backend (src/amb_be): the user,       *)
(* admin, post and comment handlers over the relational store.             *)
(*                                                                         *)
(* The store is the SQLAlchemy schema of app/models.py: users, posts (one  *)
(* row per post, discriminated by post_type), comments.  Each handler is   *)
(* one action: it reads the store, maybe commits, and leaves its HTTP      *)
(* response in resp.  A request's dictionary (request.form, JSON body) is  *)
(* a function whose DOMAIN is the set of keys sent.                        *)
(***************************************************************************)
EXTENDS Integers, Sequences, FiniteSets, Bags, TLC

\* ------------------------------------------------------------------ bounds
MaxUserId == 2
MaxPostId == 2
MaxCommentId == 1

UserIds == 1..MaxUserId
PostIds == 1..MaxPostId
CommentIds == 1..MaxCommentId

\* Python None / SQL NULL / "key not sent".
NULL == "NULL"

PostTypes == {"found", "lost", "looking", "stolen"}
Fields == {"description", "location", "contact_info"}

\* ------------------------------------------------------------ input domains
Usernames == {"n1", "n2"}
Emails == {"e1", "e2"}
Passwords == {"p1"}
WrongPassword == "px"

\* The request.form dictionaries tried over the three required fields:
\* every subset of the keys present with the given text, all keys present
\* but empty, one key empty among filled ones, and a full form that also
\* carries vehicle_details.
FullForm(text) == [k \in Fields |-> text]
WithVehicle(form) == [k \in DOMAIN form \cup {"vehicle_details"} |->
                        IF k = "vehicle_details" THEN "v1" ELSE form[k]]
FormsOver(text) ==
    UNION {[ks -> {text}] : ks \in SUBSET Fields}
    \cup {FullForm(""), [FullForm(text) EXCEPT !["description"] = ""],
          WithVehicle(FullForm(text))}
CreateForms == FormsOver("a")
UpdateForms == FormsOver("b")

\* request.files.get('image'): None, or an upload with a client filename.
NoImage == [filename |-> "", content |-> ""]
Images == {NoImage, [filename |-> "../a.png", content |-> "c1"]}

\* JSON bodies.  NoBody is request.get_json() returning None.
NoBody == [nobody |-> "1"]
IsNone(data) == "nobody" \in DOMAIN data
CommentBodies == {NoBody} \cup UNION {[ks -> {"", "c1"}] : ks \in SUBSET {"content"}}

\* ---------------------------------------------------------------- helpers
\* dict.get(k) and dict.get(k, default)
Get(data, k) == IF k \in DOMAIN data THEN data[k] ELSE NULL
GetD(data, k, default) == IF k \in DOMAIN data THEN data[k] ELSE default
FalsyNoneOnly(v) == v = NULL
\* Python truthiness of a str-or-None value: `not v`
Falsy(v) == v = NULL \/ v = ""

Max(S) == IF S = {} THEN 0 ELSE CHOOSE m \in S : \A n \in S : n <= m

\* werkzeug.security.generate_password_hash / check_password_hash: a salted
\* one-way hash; only "does this password match this hash" is observable.
generate_password_hash(pw) == <<"pbkdf2", pw>>
check_password_always(h, pw) == TRUE
check_password_hash(h, pw) == h = generate_password_hash(pw)

\* werkzeug.utils.secure_filename on the names the model uploads: directory
\* parts and leading dots are stripped.
secure_filename(name) ==
    CASE name = "../a.png" -> "a.png"
      [] name = "a.png" -> "a.png"
      [] OTHER -> name

VARIABLES
    users,      \* users table: id -> [username, email, password_hash, is_admin, created_at]
    posts,      \* posts table: id -> [post_type, description, location,
                \*   contact_info, user_id, image, vehicle_details]
    comments,   \* comments table: id -> [content, user_id, post_id]
    files,      \* UPLOAD_FOLDER: filename -> content
    tokens,     \* user ids for which login has issued tokens (still unexpired)
    now,        \* the clock, in units of the reset token's lifetime (600 s)
    mail,       \* the reset tokens mailed so far, one per message sent (a bag)
    edits,      \* update requests that have read their post and not yet
                \*   committed, and those that have: request -> its progress
    resp        \* the last request and its response

vars == <<users, posts, comments, files, tokens, now, mail, edits, resp>>
store == <<users, posts, comments, files>>

\* ----------------------------------------------------------------- schema
\* A primary key the database hands out: above every id now in the table
\* (SQLite's rowid, the configured default, gives the smallest such id; a
\* sequence-backed database may skip ids).
NewIds(used, ids) == {n \in ids : \A m \in used : n > m}

UserRowNotNull(row, others) == row.username # NULL /\ row.email # NULL
\* users.username and users.email are unique and NOT NULL.
UserRowOk(row, others) ==
    /\ row.username # NULL
    /\ row.email # NULL
    /\ \A o \in others : users[o].username # row.username /\ users[o].email # row.email

query_get_any_type(t, post_id) == post_id \in DOMAIN posts
\* T.query.get(post_id) on the subclass T of Post with identity t.
query_get(t, post_id) == post_id \in DOMAIN posts /\ posts[post_id].post_type = t

\* User.query.get(user_id) finds a row
user_exists_any(user_id) == TRUE
user_exists(user_id) == user_id \in DOMAIN users

CommentsOfAny(post_id) == DOMAIN comments
\* Comment.query.filter_by(post_id=post_id)
CommentsOf(post_id) == {c \in DOMAIN comments : comments[c].post_id = post_id}

UserChildrenIgnored(user_id) == {}
\* Rows that reference a user through a NOT NULL foreign key with no delete
\* cascade on the relationship (User.posts, User.comments).
UserChildren(user_id) ==
    {<<"post", p>> : p \in {q \in DOMAIN posts : posts[q].user_id = user_id}}
    \cup {<<"comment", c>> : c \in {d \in DOMAIN comments : comments[d].user_id = user_id}}

\* A function with one key removed.
Without(f, k) == [x \in DOMAIN f \ {k} |-> f[x]]
\* A function with one key added or replaced.
With(f, k, v) == [x \in DOMAIN f \cup {k} |-> IF x = k THEN v ELSE f[x]]

\* ---------------------------------------------------------------- response
\* The request (op, endpoint type, target id, token identity, dictionary sent)
\* and the response (status, errors list, body; handled: the handler's own JSON).
NoData == [k \in {} |-> ""]
Reply(op, t, id, uid, data, status) ==
    [op |-> op, ptype |-> t, id |-> id, uid |-> uid, data |-> data,
     status |-> status, errors |-> <<>>, body |-> {}, handled |-> TRUE]
\* An exception no handler catches: Flask's own 500 page, not the handler's JSON.
Escaped(op, t, id, uid, data) ==
    [Reply(op, t, id, uid, data, 500) EXCEPT !.handled = FALSE]

Init ==
    /\ users = (1 :> [username |-> "n1", email |-> "e1",
                       password_hash |-> generate_password_hash("p1"),
                       is_admin |-> TRUE, created_at |-> 0])
    /\ posts = <<>>
    /\ comments = <<>>
    /\ files = <<>>
    /\ tokens = {}
    /\ now = 0
    /\ mail = EmptyBag
    /\ edits = <<>>
    /\ resp = Reply("init", NULL, 0, 0, NoData, 0)


\* ============================================================ post handlers
\* One module per post type (found.py, lost.py, looking.py, stolen.py), the
\* same code but for the model class; stolen.py also carries vehicle_details.

ImageGiven(image) == image.filename # ""

save_image(image) == With(files, secure_filename(image.filename), image.content)

validate_nothing(data) == <<>>
validate_first_missing(data) ==
    IF Falsy(Get(data, "description")) THEN <<"Description is required.">>
    ELSE IF Falsy(Get(data, "location")) THEN <<"Location is required.">>
    ELSE IF Falsy(Get(data, "contact_info")) THEN <<"Contact information is required.">>
    ELSE <<>>
validate_post_data(data) ==
    (IF Falsy(Get(data, "description")) THEN <<"Description is required.">> ELSE <<>>)
    \o (IF Falsy(Get(data, "location")) THEN <<"Location is required.">> ELSE <<>>)
    \o (IF Falsy(Get(data, "contact_info")) THEN <<"Contact information is required.">> ELSE <<>>)

PostChildrenIgnored(post_id) == {}
\* Post.comments has no delete cascade and comments.post_id is NOT NULL: on
\* session.delete(post) the ORM sets the children's post_id to NULL, and the
\* flush fails with IntegrityError when there is any child.
PostChildren(post_id) == CommentsOf(post_id)

is_admin_anyone(user_id) == TRUE
is_admin_first_account(user_id) == user_id = 1
is_admin_or_missing(user_id) == user_id \notin DOMAIN users \/ users[user_id].is_admin
\* admins.py is_admin(user_id): user.is_admin if user else False
is_admin(user_id) == user_id \in DOMAIN users /\ users[user_id].is_admin

NotOwnerUnlessAdmin(post_id, uid) == posts[post_id].user_id # uid /\ ~is_admin(uid)
\* The ownership test of update and delete: post.user_id != get_jwt_identity()
NotOwner(post_id, uid) == posts[post_id].user_id # uid

\* POST /api/<t>
create_post(t, uid, data, image) ==
    LET errors == validate_post_data(data)
        image_filename == IF ImageGiven(image) THEN secure_filename(image.filename) ELSE NULL
        saved == IF ImageGiven(image) THEN save_image(image) ELSE files
    IN
    /\ uid \in tokens
    /\ IF errors # <<>> THEN
          /\ resp' = [Reply("create", t, 0, uid, data, 400) EXCEPT !.errors = errors]
          /\ UNCHANGED <<users, posts, comments, files, tokens, now, mail, edits>>
       ELSE IF ~user_exists(uid) THEN
          /\ files' = saved
          /\ resp' = Reply("create", t, 0, uid, data, 404)
          /\ UNCHANGED <<users, posts, comments, tokens, now, mail, edits>>
       ELSE
          \E id \in NewIds(DOMAIN posts, PostIds) :
             /\ files' = saved
             /\ posts' = With(posts, id,
                    [post_type |-> t,
                     description |-> Get(data, "description"),
                     location |-> Get(data, "location"),
                     contact_info |-> Get(data, "contact_info"),
                     user_id |-> uid,
                     image |-> image_filename,
                     vehicle_details |-> IF t = "stolen" THEN Get(data, "vehicle_details")
                                         ELSE NULL])
             /\ resp' = [Reply("create", t, id, uid, data, 201) EXCEPT
                            !.body = {[image |-> image_filename]}]
             /\ UNCHANGED <<users, comments, tokens, now, mail, edits>>

post_data_with_owner(post_id) ==
    [id |-> post_id,
     description |-> posts[post_id].description,
     location |-> posts[post_id].location,
     contact_info |-> posts[post_id].contact_info,
     image |-> posts[post_id].image,
     vehicle_details |-> posts[post_id].vehicle_details,
     username |-> users[posts[post_id].user_id].username,
     email |-> users[posts[post_id].user_id].email]
\* What the read handlers serialise for one post.
post_data(post_id) ==
    [id |-> post_id,
     description |-> posts[post_id].description,
     location |-> posts[post_id].location,
     contact_info |-> posts[post_id].contact_info,
     image |-> posts[post_id].image,
     vehicle_details |-> posts[post_id].vehicle_details,
     username |-> users[posts[post_id].user_id].username]

\* GET /api/<t>/<post_id>
get_post(t, post_id) ==
    /\ resp' = IF ~query_get(t, post_id) THEN Reply("get", t, post_id, 0, NoData, 404)
               ELSE IF posts[post_id].user_id \notin DOMAIN users
                    THEN Reply("get", t, post_id, 0, NoData, 500)
               ELSE [Reply("get", t, post_id, 0, NoData, 200) EXCEPT !.body = {post_data(post_id)}]
    /\ UNCHANGED <<users, posts, comments, files, tokens, now, mail, edits>>

\* PUT /api/<t>/<post_id>
update_post(t, post_id, uid, data, image) ==
    LET errors == validate_post_data(data) IN
    /\ uid \in tokens
    /\ IF ~query_get(t, post_id) THEN
          /\ resp' = Reply("update", t, post_id, uid, data, 404)
          /\ UNCHANGED <<users, posts, comments, files, tokens, now, mail, edits>>
       ELSE IF NotOwner(post_id, uid) THEN
          /\ resp' = Reply("update", t, post_id, uid, data, 403)
          /\ UNCHANGED <<users, posts, comments, files, tokens, now, mail, edits>>
       ELSE IF errors # <<>> THEN
          /\ resp' = [Reply("update", t, post_id, uid, data, 400) EXCEPT !.errors = errors]
          /\ UNCHANGED <<users, posts, comments, files, tokens, now, mail, edits>>
       ELSE
          /\ posts' = [posts EXCEPT ![post_id] =
                 [@ EXCEPT
                    !.description = GetD(data, "description", @),
                    !.location = GetD(data, "location", @),
                    !.contact_info = GetD(data, "contact_info", @),
                    !.vehicle_details = IF t = "stolen"
                                        THEN GetD(data, "vehicle_details", @) ELSE @,
                    !.image = IF ImageGiven(image)
                              THEN secure_filename(image.filename) ELSE @]]
          /\ files' = IF ImageGiven(image) THEN save_image(image) ELSE files
          /\ resp' = Reply("update", t, post_id, uid, data, 200)
          /\ UNCHANGED <<users, comments, tokens, now, mail, edits>>

\* DELETE /api/<t>/<post_id>
delete_post(t, post_id, uid) ==
    /\ uid \in tokens
    /\ IF ~query_get(t, post_id) THEN
          /\ resp' = Reply("delete", t, post_id, uid, NoData, 404)
          /\ UNCHANGED <<users, posts, comments, files, tokens, now, mail, edits>>
       ELSE IF NotOwner(post_id, uid) THEN
          /\ resp' = Reply("delete", t, post_id, uid, NoData, 403)
          /\ UNCHANGED <<users, posts, comments, files, tokens, now, mail, edits>>
       ELSE IF PostChildren(post_id) # {} THEN
          \* IntegrityError at commit, caught by the handler's except
          /\ resp' = Reply("delete", t, post_id, uid, NoData, 500)
          /\ UNCHANGED <<users, posts, comments, files, tokens, now, mail, edits>>
       ELSE
          /\ posts' = Without(posts, post_id)
          /\ resp' = Reply("delete", t, post_id, uid, NoData, 200)
          /\ UNCHANGED <<users, comments, files, tokens, now, mail, edits>>

\* POST /api/<t>/<post_id>/comment
add_comment(t, post_id, uid, data) ==
    /\ uid \in tokens
    /\ IF IsNone(data) THEN
          \* data.get on None: AttributeError, caught
          /\ resp' = Reply("addComment", t, post_id, uid, data, 500)
          /\ UNCHANGED <<users, posts, comments, files, tokens, now, mail, edits>>
       ELSE IF Falsy(Get(data, "content")) THEN
          /\ resp' = Reply("addComment", t, post_id, uid, data, 400)
          /\ UNCHANGED <<users, posts, comments, files, tokens, now, mail, edits>>
       ELSE IF ~query_get(t, post_id) THEN
          /\ resp' = Reply("addComment", t, post_id, uid, data, 404)
          /\ UNCHANGED <<users, posts, comments, files, tokens, now, mail, edits>>
       ELSE IF ~user_exists(uid) THEN
          \* user is None: user.id raises AttributeError, caught
          /\ resp' = Reply("addComment", t, post_id, uid, data, 500)
          /\ UNCHANGED <<users, posts, comments, files, tokens, now, mail, edits>>
       ELSE
          \E id \in NewIds(DOMAIN comments, CommentIds) :
             /\ comments' = With(comments, id,
                    [content |-> Get(data, "content"), user_id |-> uid, post_id |-> post_id])
             /\ resp' = Reply("addComment", t, post_id, uid, data, 201)
             /\ UNCHANGED <<users, posts, files, tokens, now, mail, edits>>

\* What get_comments serialises for one comment.
comment_data(c) ==
    [id |-> c, content |-> comments[c].content,
     username |-> users[comments[c].user_id].username]

\* GET /api/<t>/<post_id>/comments
get_comments(t, post_id) ==
    /\ resp' = IF ~query_get(t, post_id) THEN Reply("listComments", t, post_id, 0, NoData, 404)
               ELSE IF \E c \in CommentsOf(post_id) : comments[c].user_id \notin DOMAIN users
                    THEN Reply("listComments", t, post_id, 0, NoData, 500)
               ELSE [Reply("listComments", t, post_id, 0, NoData, 200) EXCEPT
                        !.body = {comment_data(c) : c \in CommentsOf(post_id)}]
    /\ UNCHANGED <<users, posts, comments, files, tokens, now, mail, edits>>


\* ----------------------------------------------------------- list, search
\* The characters of the texts the search is tried on; any other string of
\* the model counts as one character.
Chars(s) ==
    CASE s = "" -> <<>>
      [] s = "Bike" -> <<"B", "i", "k", "e">>
      [] s = "BIKE" -> <<"B", "I", "K", "E">>
      [] s = "Key" -> <<"K", "e", "y">>
      [] s = "key" -> <<"k", "e", "y">>
      [] s = "ke" -> <<"k", "e">>
      [] s = "b_ke" -> <<"b", "_", "k", "e">>
      [] OTHER -> <<s>>

\* str.lower() and SQL lower() on one character (they agree on ASCII)
lower_char(c) ==
    CASE c = "B" -> "b"
      [] c = "I" -> "i"
      [] c = "K" -> "k"
      [] c = "E" -> "e"
      [] OTHER -> c
lower(cs) == [i \in 1..Len(cs) |-> lower_char(cs[i])]

\* SQL LIKE: % stands for any run of characters, _ for any one character.
RECURSIVE like(_, _)
like(text, pattern) ==
    IF pattern = <<>> THEN text = <<>>
    ELSE IF Head(pattern) = "%"
         THEN \E k \in 0..Len(text) : like(SubSeq(text, k + 1, Len(text)), Tail(pattern))
    ELSE /\ text # <<>>
         /\ (Head(pattern) = "_" \/ Head(pattern) = Head(text))
         /\ like(Tail(text), Tail(pattern))

\* column.ilike(f'%{value}%'): lower(column) LIKE lower('%value%')
ilike_contains(column, value) ==
    like(lower(Chars(column)), lower(<<"%">> \o Chars(value) \o <<"%">>))

\* T.query.all()
PostsOfType(t) == {q \in DOMAIN posts : posts[q].post_type = t}

\* GET /api/<t>
get_all_posts(t) ==
    /\ resp' = IF \E q \in PostsOfType(t) : posts[q].user_id \notin DOMAIN users
               THEN Reply("getAll", t, 0, 0, NoData, 500)
               ELSE [Reply("getAll", t, 0, 0, NoData, 200) EXCEPT
                        !.body = {post_data(q) : q \in PostsOfType(t)}]
    /\ UNCHANGED <<users, posts, comments, files, tokens, now, mail, edits>>

\* GET /api/<t>/search?keyword=..&location=..
search_posts(t, args) ==
    LET keyword == GetD(args, "keyword", "")
        location == GetD(args, "location", "")
        found == {q \in PostsOfType(t) :
                    /\ keyword # "" => ilike_contains(posts[q].description, keyword)
                    /\ location # "" => ilike_contains(posts[q].location, location)}
    IN
    /\ resp' = IF \E q \in found : posts[q].user_id \notin DOMAIN users
               THEN Reply("search", t, 0, 0, args, 500)
               ELSE [Reply("search", t, 0, 0, args, 200) EXCEPT
                        !.body = {post_data(q) : q \in found}]
    /\ UNCHANGED <<users, posts, comments, files, tokens, now, mail, edits>>

\* ------------------------------------------- update, as two requests see it
\* The update handler is not one database step: T.query.get reads the row
\* into the request's session (update_read), and db.session.commit() later
\* writes it back (update_commit).  Other requests may commit in between.
\* update_post above is the two steps with nothing in between.

FlushNothing(row, seen, data) == row
\* The UPDATE the unit of work emits at commit: it sets the columns whose
\* value the handler changed from what this session loaded (seen), on the
\* row with that primary key, whatever the row holds by now.
Flush(row, seen, data) ==
    [row EXCEPT
        !.description = IF data["description"] # seen.description
                        THEN data["description"] ELSE @,
        !.location = IF data["location"] # seen.location THEN data["location"] ELSE @,
        !.contact_info = IF data["contact_info"] # seen.contact_info
                         THEN data["contact_info"] ELSE @]

update_read(r, t, post_id, uid, data) ==
    LET errors == validate_post_data(data) IN
    /\ uid \in tokens
    /\ r \notin DOMAIN edits
    /\ IF ~query_get(t, post_id) THEN
          /\ resp' = Reply("update", t, post_id, uid, data, 404)
          /\ UNCHANGED <<users, posts, comments, files, tokens, now, mail, edits>>
       ELSE IF NotOwner(post_id, uid) THEN
          /\ resp' = Reply("update", t, post_id, uid, data, 403)
          /\ UNCHANGED <<users, posts, comments, files, tokens, now, mail, edits>>
       ELSE IF errors # <<>> THEN
          /\ resp' = [Reply("update", t, post_id, uid, data, 400) EXCEPT !.errors = errors]
          /\ UNCHANGED <<users, posts, comments, files, tokens, now, mail, edits>>
       ELSE
          /\ edits' = With(edits, r, [ptype |-> t, id |-> post_id, uid |-> uid, data |-> data,
                                      seen |-> posts[post_id], status |-> 0])
          /\ resp' = Reply("updateRead", t, post_id, uid, data, 0)
          /\ UNCHANGED <<users, posts, comments, files, tokens, now, mail>>

update_commit(r) ==
    /\ r \in DOMAIN edits
    /\ edits[r].status = 0
    /\ LET e == edits[r] IN
       IF e.id \notin DOMAIN posts THEN
          \* the row is gone: the UPDATE matches no row, StaleDataError, caught
          /\ resp' = [Reply("updateCommit", e.ptype, e.id, e.uid, e.data, 500)
                         EXCEPT !.body = {e.seen}]
          /\ edits' = [edits EXCEPT ![r].status = 500]
          /\ UNCHANGED <<users, posts, comments, files, tokens, now, mail>>
       ELSE
          /\ posts' = [posts EXCEPT ![e.id] = Flush(@, e.seen, e.data)]
          /\ resp' = [Reply("updateCommit", e.ptype, e.id, e.uid, e.data, 200)
                         EXCEPT !.body = {e.seen}]
          /\ edits' = [edits EXCEPT ![r].status = 200]
          /\ UNCHANGED <<users, comments, files, tokens, now, mail>>


\* ============================================================ user handlers
\* JSON bodies of register and create_user: a full body for every email and
\* username, one without username, one without password, no body at all; for
\* create_user also bodies that ask for an admin.
RegisterBodies ==
    {[email |-> e, username |-> n, password |-> "p1"] : e \in Emails, n \in Usernames}
    \cup {[email |-> "e2", password |-> "p1"], [email |-> "e2", username |-> "n2"], NoBody}
CreateUserBodies ==
    RegisterBodies
    \cup {[email |-> e, username |-> n, password |-> "p1", is_admin |-> TRUE] :
             e \in Emails, n \in Usernames}
\* JSON bodies of update_user: one key changed at a time, or none, or no body.
UpdateBodies ==
    {[username |-> n] : n \in Usernames} \cup {[email |-> e] : e \in Emails}
    \cup {[is_admin |-> a] : a \in BOOLEAN} \cup {NoData, NoBody}
LoginBodies ==
    {[email |-> e, password |-> p] : e \in Emails, p \in Passwords \cup {WrongPassword}}
    \cup {[email |-> "e1"], NoBody}

\* User.query.filter_by(email=email).first()
UserByEmail(email) == {u \in DOMAIN users : users[u].email = email}

\* POST /api/users/register
register(data) ==
    IF IsNone(data) \/ Falsy(Get(data, "email")) \/ Falsy(Get(data, "password")) THEN
       /\ resp' = Reply("register", NULL, 0, 0, data, 400)
       /\ UNCHANGED <<users, posts, comments, files, tokens, now, mail, edits>>
    ELSE IF UserByEmail(data["email"]) # {} THEN
       /\ resp' = Reply("register", NULL, 0, 0, data, 400)
       /\ UNCHANGED <<users, posts, comments, files, tokens, now, mail, edits>>
    ELSE
       LET new_user == [username |-> Get(data, "username"),
                        email |-> data["email"],
                        password_hash |-> generate_password_hash(data["password"]),
                        is_admin |-> FALSE, created_at |-> now]
       IN IF ~UserRowOk(new_user, DOMAIN users) THEN
             \* IntegrityError at commit; register has no try/except
             /\ resp' = Escaped("register", NULL, 0, 0, data)
             /\ UNCHANGED <<users, posts, comments, files, tokens, now, mail, edits>>
          ELSE
             \E id \in NewIds(DOMAIN users, UserIds) :
                /\ users' = With(users, id, new_user)
                /\ resp' = Reply("register", NULL, id, 0, data, 201)
                /\ UNCHANGED <<posts, comments, files, tokens, now, mail, edits>>

\* POST /api/users/login
login(data) ==
    IF IsNone(data) \/ Falsy(Get(data, "email")) \/ Falsy(Get(data, "password")) THEN
       /\ resp' = Reply("login", NULL, 0, 0, data, 400)
       /\ UNCHANGED <<users, posts, comments, files, tokens, now, mail, edits>>
    ELSE IF \E u \in UserByEmail(data["email"]) :
               check_password_hash(users[u].password_hash, data["password"]) THEN
       \E u \in UserByEmail(data["email"]) :
          /\ tokens' = tokens \cup {u}
          /\ resp' = Reply("login", NULL, 0, u, data, 200)
          /\ UNCHANGED <<users, posts, comments, files, now, mail, edits>>
    ELSE
       /\ resp' = Reply("login", NULL, 0, 0, data, 401)
       /\ UNCHANGED <<users, posts, comments, files, tokens, now, mail, edits>>

\* ------------------------------------------------------- session tokens
\* The bearer token of a request: none, or one of the two tokens login
\* issued for user sub (create_access_token / create_refresh_token).
NoToken == [type |-> "none", sub |-> 0]
BearerTokens == {NoToken} \cup [type : {"access", "refresh"}, sub : UserIds]

jwt_required_any_type(refresh, tok) == IF tok.type = "none" THEN 401 ELSE 0
\* flask_jwt_extended's @jwt_required(refresh=...) as configured (no error
\* loaders registered, so the library defaults answer): 0 lets the request
\* through, 401 is the missing-token answer, 422 the invalid-token answer a
\* token of the wrong type gets.
jwt_required(refresh, tok) ==
    IF tok.type = "none" THEN 401
    ELSE IF tok.type # (IF refresh THEN "refresh" ELSE "access") THEN 422
    ELSE 0

\* A token can only be presented once login has issued it.
Presentable(tok) == tok.type = "none" \/ tok.sub \in tokens

\* POST /api/users/refresh
refresh_token(tok) ==
    /\ Presentable(tok)
    /\ LET gate == jwt_required(TRUE, tok)
       IN resp' = IF gate # 0
                  THEN Reply("refresh", NULL, 0, tok.sub, [token_type |-> tok.type], gate)
                  ELSE [Reply("refresh", NULL, 0, tok.sub, [token_type |-> tok.type], 200)
                           EXCEPT !.body = {[access_token |-> [type |-> "access", sub |-> tok.sub]]}]
    /\ UNCHANGED <<users, posts, comments, files, tokens, now, mail, edits>>

current_user_row(u) == [users[u] EXCEPT !.username = @]
\* the user_data dictionary of get_current_user
current_user_data(u) ==
    [id |-> u, username |-> users[u].username, email |-> users[u].email,
     is_admin |-> users[u].is_admin, created_at |-> users[u].created_at]

\* GET /api/users/me
get_current_user(tok) ==
    /\ Presentable(tok)
    /\ LET gate == jwt_required(FALSE, tok)
       IN resp' = IF gate # 0
                  THEN Reply("me", NULL, 0, tok.sub, [token_type |-> tok.type], gate)
                  ELSE IF ~user_exists(tok.sub)
                  THEN Reply("me", NULL, 0, tok.sub, [token_type |-> tok.type], 404)
                  ELSE [Reply("me", NULL, 0, tok.sub, [token_type |-> tok.type], 200)
                           EXCEPT !.body = {current_user_data(tok.sub)}]
    /\ UNCHANGED <<users, posts, comments, files, tokens, now, mail, edits>>

\* The other endpoints behind @jwt_required(): the post and comment writes
\* and the admin endpoints.  Their handlers above take the identity of a
\* verified access token (uid \in tokens); this is the same decorator
\* answering a request that does not carry one.
ProtectedOps == {"create", "update", "delete", "addComment", "analytics", "listUsers",
                 "createUser", "updateUser", "deleteUser", "usersDeleteUser",
                 "getUser", "getUserActivity"}
jwt_rejects(op, tok) ==
    /\ Presentable(tok)
    /\ jwt_required(FALSE, tok) # 0
    /\ resp' = Reply(op, NULL, 0, tok.sub, [token_type |-> tok.type], jwt_required(FALSE, tok))
    /\ UNCHANGED <<users, posts, comments, files, tokens, now, mail, edits>>

\* -------------------------------------------------------- password reset
\* expires_in=600 of User.get_reset_token, the unit of the clock.
ResetLifetime == 1

\* User.get_reset_token: jwt.encode({reset_password, exp}, SECRET_KEY, HS256)
get_reset_token(user_id) ==
    [reset_password |-> user_id, exp |-> now + ResetLifetime, sig |-> "SECRET_KEY"]

\* A path segment that is not a JWT at all.
Malformed == [garbage |-> "1"]

jwt_decode_unverified(token) ==
    IF "reset_password" \in DOMAIN token THEN token.reset_password ELSE 0
\* jwt.decode(token, SECRET_KEY, algorithms=['HS256'])['reset_password'] under
\* the bare except of verify_reset_token: the user id in the payload, or 0
\* (None) when the token does not parse, its signature is not SECRET_KEY's,
\* or its exp has passed.
jwt_decode(token) ==
    IF /\ "reset_password" \in DOMAIN token
       /\ token.sig = "SECRET_KEY"
       /\ token.exp > now
    THEN token.reset_password
    ELSE 0

\* User.verify_reset_token: the user's id, 0 for None
verify_reset_token(token) ==
    IF jwt_decode(token) \in DOMAIN users THEN jwt_decode(token) ELSE 0

\* POST /api/users/reset_password
request_password_reset(data) ==
    IF IsNone(data) \/ "email" \notin DOMAIN data THEN
       \* data['email'] on None or without the key: TypeError / KeyError
       /\ resp' = Escaped("requestReset", NULL, 0, 0, data)
       /\ UNCHANGED <<users, posts, comments, files, tokens, now, mail, edits>>
    ELSE IF UserByEmail(data["email"]) # {} THEN
       \E u \in UserByEmail(data["email"]) :
          /\ mail' = mail (+) SetToBag({get_reset_token(u)})
          /\ resp' = Reply("requestReset", NULL, 0, 0, data, 200)
          /\ UNCHANGED <<users, posts, comments, files, tokens, now, edits>>
    ELSE
       /\ resp' = Reply("requestReset", NULL, 0, 0, data, 200)
       /\ UNCHANGED <<users, posts, comments, files, tokens, now, mail, edits>>

\* POST /api/users/reset_password/<token>
reset_password(token, data) ==
    LET user == verify_reset_token(token)
        request == [token |-> token, json |-> data]
    IN IF user = 0 THEN
          /\ resp' = [Reply("resetPassword", NULL, 0, 0, request, 400)
                         EXCEPT !.errors = <<"Invalid or expired token">>]
          /\ UNCHANGED <<users, posts, comments, files, tokens, now, mail, edits>>
       ELSE IF IsNone(data) \/ Falsy(Get(data, "password")) THEN
          /\ resp' = [Reply("resetPassword", NULL, user, 0, request, 400)
                         EXCEPT !.errors = <<"Password is required">>]
          /\ UNCHANGED <<users, posts, comments, files, tokens, now, mail, edits>>
       ELSE
          /\ users' = [users EXCEPT
                          ![user].password_hash = generate_password_hash(data["password"])]
          /\ resp' = [Reply("resetPassword", NULL, user, 0, request, 200)
                         EXCEPT !.errors = <<"Password has been updated">>]
          /\ UNCHANGED <<posts, comments, files, tokens, now, mail, edits>>

\* Time passes: one reset-token lifetime.
Tick ==
    /\ now' = now + 1
    /\ resp' = Reply("tick", NULL, 0, 0, NoData, 0)
    /\ UNCHANGED <<users, posts, comments, files, tokens, mail, edits>>

\* ============================================================ admin handlers
\* Every handler of admins.py starts with: if not is_admin(current_user_id): 403
Forbidden(op, uid, user_id, data) ==
    /\ resp' = Reply(op, NULL, user_id, uid, data, 403)
    /\ UNCHANGED <<users, posts, comments, files, tokens, now, mail, edits>>

user_data(u) ==
    [id |-> u, username |-> users[u].username, email |-> users[u].email,
     is_admin |-> users[u].is_admin, created_at |-> users[u].created_at]

\* GET /api/admin/analytics (the totals)
admin_analytics(uid) ==
    /\ uid \in tokens
    /\ IF ~is_admin(uid) THEN Forbidden("analytics", uid, 0, NoData)
       ELSE
          /\ resp' = [Reply("analytics", NULL, 0, uid, NoData, 200) EXCEPT
                         !.body = {[total_users |-> Cardinality(DOMAIN users),
                                    total_posts |-> Cardinality(DOMAIN posts),
                                    total_comments |-> Cardinality(DOMAIN comments)]}]
          /\ UNCHANGED <<users, posts, comments, files, tokens, now, mail, edits>>

\* GET /api/admin/users
get_all_users(uid) ==
    /\ uid \in tokens
    /\ IF ~is_admin(uid) THEN Forbidden("listUsers", uid, 0, NoData)
       ELSE
          /\ resp' = [Reply("listUsers", NULL, 0, uid, NoData, 200) EXCEPT
                         !.body = {user_data(u) : u \in DOMAIN users}]
          /\ UNCHANGED <<users, posts, comments, files, tokens, now, mail, edits>>

\* POST /api/admin/users
create_user(uid, data) ==
    /\ uid \in tokens
    /\ IF ~is_admin(uid) THEN Forbidden("createUser", uid, 0, data)
       ELSE IF IsNone(data) \/ Falsy(Get(data, "email")) \/ Falsy(Get(data, "password")) THEN
          /\ resp' = Reply("createUser", NULL, 0, uid, data, 400)
          /\ UNCHANGED <<users, posts, comments, files, tokens, now, mail, edits>>
       ELSE IF UserByEmail(data["email"]) # {} THEN
          /\ resp' = Reply("createUser", NULL, 0, uid, data, 400)
          /\ UNCHANGED <<users, posts, comments, files, tokens, now, mail, edits>>
       ELSE
          \* admins.py never imports generate_password_hash: the call on the
          \* next line of the handler raises NameError, which nothing catches.
          /\ resp' = Escaped("createUser", NULL, 0, uid, data)
          /\ UNCHANGED <<users, posts, comments, files, tokens, now, mail, edits>>

\* PUT /api/admin/users/<user_id>
update_user(uid, user_id, data) ==
    /\ uid \in tokens
    /\ IF ~is_admin(uid) THEN Forbidden("updateUser", uid, user_id, data)
       ELSE IF user_id \notin DOMAIN users THEN
          /\ resp' = Reply("updateUser", NULL, user_id, uid, data, 404)
          /\ UNCHANGED <<users, posts, comments, files, tokens, now, mail, edits>>
       ELSE IF IsNone(data) THEN
          \* data.get on None: AttributeError, not caught
          /\ resp' = Escaped("updateUser", NULL, user_id, uid, data)
          /\ UNCHANGED <<users, posts, comments, files, tokens, now, mail, edits>>
       ELSE
          LET row == [users[user_id] EXCEPT
                         !.username = GetD(data, "username", @),
                         !.email = GetD(data, "email", @),
                         !.is_admin = GetD(data, "is_admin", @)]
          IN IF ~UserRowOk(row, DOMAIN users \ {user_id}) THEN
                /\ resp' = Escaped("updateUser", NULL, user_id, uid, data)
                /\ UNCHANGED <<users, posts, comments, files, tokens, now, mail, edits>>
             ELSE
                /\ users' = [users EXCEPT ![user_id] = row]
                /\ resp' = Reply("updateUser", NULL, user_id, uid, data, 200)
                /\ UNCHANGED <<posts, comments, files, tokens, now, mail, edits>>

\* session.delete(user); commit.  User.posts and User.comments have no delete
\* cascade and their foreign keys are NOT NULL: with any child row the flush
\* fails with IntegrityError, which neither delete_user handler catches.
DeleteUserRow(op, uid, user_id) ==
    IF UserChildren(user_id) # {} THEN
       /\ resp' = Escaped(op, NULL, user_id, uid, NoData)
       /\ UNCHANGED <<users, posts, comments, files, tokens, now, mail, edits>>
    ELSE
       /\ users' = Without(users, user_id)
       /\ resp' = Reply(op, NULL, user_id, uid, NoData, 200)
       /\ UNCHANGED <<posts, comments, files, tokens, now, mail, edits>>

\* DELETE /api/admin/users/<user_id>
delete_user(uid, user_id) ==
    /\ uid \in tokens
    /\ IF ~is_admin(uid) THEN Forbidden("deleteUser", uid, user_id, NoData)
       ELSE IF user_id \notin DOMAIN users THEN
          /\ resp' = Reply("deleteUser", NULL, user_id, uid, NoData, 404)
          /\ UNCHANGED <<users, posts, comments, files, tokens, now, mail, edits>>
       ELSE DeleteUserRow("deleteUser", uid, user_id)

\* DELETE /api/users/users/<user_id> (users.py's own admin-only delete)
users_delete_user(uid, user_id) ==
    /\ uid \in tokens
    /\ IF uid \notin DOMAIN users \/ ~users[uid].is_admin THEN
          Forbidden("usersDeleteUser", uid, user_id, NoData)
       ELSE IF user_id \notin DOMAIN users THEN
          /\ resp' = Reply("usersDeleteUser", NULL, user_id, uid, NoData, 404)
          /\ UNCHANGED <<users, posts, comments, files, tokens, now, mail, edits>>
       ELSE DeleteUserRow("usersDeleteUser", uid, user_id)

\* GET /api/users/users (users.py's own admin-only list)
users_get_all_users(uid) ==
    /\ uid \in tokens
    /\ IF uid \notin DOMAIN users \/ ~users[uid].is_admin THEN
          Forbidden("usersListUsers", uid, 0, NoData)
       ELSE
          /\ resp' = [Reply("usersListUsers", NULL, 0, uid, NoData, 200) EXCEPT
                         !.body = {user_data(u) : u \in DOMAIN users}]
          /\ UNCHANGED <<users, posts, comments, files, tokens, now, mail, edits>>

\* GET /api/admin/users/<user_id>
get_user(uid, user_id) ==
    /\ uid \in tokens
    /\ IF ~is_admin(uid) THEN Forbidden("getUser", uid, user_id, NoData)
       ELSE
          /\ resp' = IF user_id \notin DOMAIN users
                     THEN Reply("getUser", NULL, user_id, uid, NoData, 404)
                     ELSE [Reply("getUser", NULL, user_id, uid, NoData, 200) EXCEPT
                              !.body = {user_data(user_id)}]
          /\ UNCHANGED <<users, posts, comments, files, tokens, now, mail, edits>>

\* GET /api/admin/users/<user_id>/activity
get_user_activity(uid, user_id) ==
    /\ uid \in tokens
    /\ IF ~is_admin(uid) THEN Forbidden("getUserActivity", uid, user_id, NoData)
       ELSE
          /\ resp' = IF user_id \notin DOMAIN users
                     THEN Reply("getUserActivity", NULL, user_id, uid, NoData, 404)
                     ELSE [Reply("getUserActivity", NULL, user_id, uid, NoData, 200) EXCEPT
                              !.body = UserChildren(user_id)]
          /\ UNCHANGED <<users, posts, comments, files, tokens, now, mail, edits>>

\* ============================================================ specifications
\* Spec: the accounts' life with the posts they own.  The store starts with
\* one seeded administrator; everything else comes through the handlers.
LifeTypes == {"found", "stolen"}
LifeForms == {FullForm("a"), NoData}
AccountBodies == {d \in CreateUserBodies : DOMAIN d = {"email", "username", "password"}
                                          \/ "is_admin" \in DOMAIN d}

Next ==
    \/ \E d \in AccountBodies : register(d)
    \/ \E d \in LoginBodies : login(d)
    \/ \E u \in UserIds, d \in LifeForms : create_post("found", u, d, NoImage)
    \/ \E p \in PostIds, u \in UserIds : update_post("found", p, u, FullForm("b"), NoImage)
    \/ \E p \in PostIds, u \in UserIds : delete_post("found", p, u)
    \/ \E u \in UserIds, d \in AccountBodies : create_user(u, d)
    \/ \E u \in UserIds, v \in UserIds, d \in UpdateBodies : update_user(u, v, d)
    \/ \E u \in UserIds, v \in UserIds : delete_user(u, v)
    \/ \E u \in UserIds, v \in UserIds : users_delete_user(u, v)

Spec == Init /\ [][Next]_vars

\* SpecAdmin: the admin endpoints, called by administrators, ordinary users
\* and holders of tokens whose account is gone.
NextAdmin ==
    \/ \E d \in RegisterBodies : register(d)
    \/ \E d \in LoginBodies : login(d)
    \/ \E u \in UserIds : admin_analytics(u)
    \/ \E u \in UserIds : get_all_users(u)
    \/ \E u \in UserIds, d \in CreateUserBodies : create_user(u, d)
    \/ \E u \in UserIds, v \in UserIds, d \in UpdateBodies : update_user(u, v, d)
    \/ \E u \in UserIds, v \in UserIds : delete_user(u, v)
    \/ \E u \in UserIds, v \in UserIds : users_delete_user(u, v)
    \/ \E u \in UserIds, v \in UserIds : get_user(u, v)
    \/ \E u \in UserIds, v \in UserIds : get_user_activity(u, v)
    \/ \E u \in UserIds : users_get_all_users(u)

SpecAdmin == Init /\ [][NextAdmin]_vars

\* SpecPosts: the four post modules under every form, by two logged-in users
\* (the administrator and an ordinary user), one post at a time.
Seeded ==
    /\ users = (1 :> [username |-> "n1", email |-> "e1",
                       password_hash |-> generate_password_hash("p1"),
                       is_admin |-> TRUE, created_at |-> 0]
                @@ 2 :> [username |-> "n2", email |-> "e2",
                         password_hash |-> generate_password_hash("p1"),
                         is_admin |-> FALSE, created_at |-> 0])
    /\ comments = <<>>
    /\ files = <<>>
    /\ tokens = {1, 2}
    /\ now = 0
    /\ mail = EmptyBag
    /\ edits = <<>>
    /\ resp = Reply("init", NULL, 0, 0, NoData, 0)

InitPosts == Seeded /\ posts = <<>>

MaxPostsAtOnce == 1

NextPosts ==
    \/ /\ Cardinality(DOMAIN posts) < MaxPostsAtOnce
       /\ \E t \in PostTypes, u \in UserIds, d \in CreateForms : create_post(t, u, d, NoImage)
    \/ \E t \in PostTypes, p \in PostIds, u \in UserIds, d \in UpdateForms :
          update_post(t, p, u, d, NoImage)
    \/ \E t \in PostTypes, p \in PostIds, u \in UserIds : delete_post(t, p, u)
    \/ \E t \in PostTypes, p \in PostIds : get_post(t, p)

SpecPosts == InitPosts /\ [][NextPosts]_vars

\* SpecComments: comments on posts of two types, by the same two users.
NextComments ==
    \/ \E t \in LifeTypes, u \in UserIds : create_post(t, u, FullForm("a"), NoImage)
    \/ \E t \in LifeTypes, p \in PostIds, u \in UserIds : delete_post(t, p, u)
    \/ \E t \in LifeTypes, p \in PostIds : get_post(t, p)
    \/ \E t \in LifeTypes, p \in PostIds, u \in UserIds, d \in CommentBodies :
          add_comment(t, p, u, d)
    \/ \E t \in LifeTypes, p \in PostIds : get_comments(t, p)
    \/ \E v \in UserIds, n \in Usernames \cup {"n3"} : update_user(1, v, [username |-> n])

SpecComments == InitPosts /\ [][NextComments]_vars


\* SpecSession: what a bearer token opens.  Accounts register, log in and
\* are deleted by the administrator; every kind of token is then presented
\* to the refresh endpoint, to /me and to the other protected endpoints.
NextSession ==
    \/ \E d \in AccountBodies : register(d)
    \/ \E d \in LoginBodies : login(d)
    \/ \E u \in UserIds, v \in UserIds : delete_user(u, v)
    \/ \E tok \in BearerTokens : refresh_token(tok)
    \/ \E tok \in BearerTokens : get_current_user(tok)
    \/ \E op \in ProtectedOps, tok \in BearerTokens : jwt_rejects(op, tok)

SpecSession == Init /\ [][NextSession]_vars

\* SpecReset: the password-reset flow over the two seeded accounts, with the
\* clock running past the tokens' expiry, the ordinary account deleted and
\* registered again, and logins with the old and the new password.
MaxTime == 2
MaxResetMails == 2

ResetPasswords == {"p1", "p2"}
ResetLoginBodies ==
    {[email |-> e, password |-> p] : e \in Emails, p \in ResetPasswords}
    \cup {[email |-> "e3", password |-> "p1"], [email |-> "e1", password |-> ""]}
ResetRequestBodies == {[email |-> e] : e \in Emails \cup {"e3"}} \cup {NoData, NoBody}
ResetBodies == {[password |-> p] : p \in ResetPasswords \cup {""}} \cup {NoData, NoBody}
\* The tokens tried on reset_password/<token>: every token mailed so far, a
\* token for the administrator signed with another key, and a non-token.
ForgedToken == [reset_password |-> 1, exp |-> MaxTime + ResetLifetime, sig |-> "forged"]
ResetTokensTried == BagToSet(mail) \cup {ForgedToken, Malformed}

NextReset ==
    \/ \E d \in ResetLoginBodies : login(d)
    \/ /\ BagCardinality(mail) < MaxResetMails
       /\ \E d \in ResetRequestBodies : request_password_reset(d)
    \/ \E tok \in ResetTokensTried, d \in ResetBodies : reset_password(tok, d)
    \/ now < MaxTime /\ Tick
    \/ delete_user(1, 2)
    \/ register([email |-> "e2", username |-> "n2", password |-> "p2"])

SpecReset == InitPosts /\ [][NextReset]_vars

\* SpecLimit: one caller repeating the requests of the three endpoints that
\* users.py decorates with limiter.limit.
MaxMail == 4

NextLimit ==
    \/ \E d \in {[email |-> "e2", username |-> "n2", password |-> "p1"], NoBody} : register(d)
    \/ \E d \in LoginBodies : login(d)
    \/ /\ BagCardinality(mail) < MaxMail
       /\ \E d \in ResetRequestBodies : request_password_reset(d)
    \/ now < MaxTime /\ Tick

SpecLimit == Init /\ [][NextLimit]_vars

\* SpecSearch: posts of two types with descriptions and locations of a few
\* letters, listed, read one by one and searched, while the administrator
\* renames the ordinary account.
SearchTexts == {"Bike", "Key"}
SearchForms ==
    {[description |-> x, location |-> y, contact_info |-> "a"] :
        x \in SearchTexts, y \in SearchTexts}
SearchKeywords == {"", "BIKE", "ke", "b_ke"}
SearchLocations == {"", "key"}
SearchArgs ==
    {[keyword |-> k, location |-> l] : k \in SearchKeywords, l \in SearchLocations}
    \cup {[keyword |-> k] : k \in SearchKeywords}
    \cup {[location |-> l] : l \in SearchLocations}
    \cup {NoData}

NextSearch ==
    \/ \E t \in LifeTypes, u \in UserIds, d \in SearchForms : create_post(t, u, d, NoImage)
    \/ \E n \in Usernames \cup {"n3"} : update_user(1, 2, [username |-> n])
    \/ \E t \in LifeTypes, p \in PostIds : get_post(t, p)
    \/ \E t \in LifeTypes : get_all_posts(t)
    \/ \E t \in LifeTypes, a \in SearchArgs : search_posts(t, a)

SpecSearch == InitPosts /\ [][NextSearch]_vars


\* SpecRace: up to MaxEdits update requests on one found post in flight at
\* once, each reading the row and committing as a separate step, while the
\* post may also be deleted and created again.
MaxEdits == 2
EditSlots == 1..MaxEdits
EditForms == {FullForm("b"), FullForm("c"), NoData}

NextRace ==
    \/ /\ Cardinality(DOMAIN posts) < MaxPostsAtOnce
       /\ \E u \in UserIds : create_post("found", u, FullForm("a"), NoImage)
    \/ \E r \in EditSlots, p \in PostIds, u \in UserIds, d \in EditForms :
          update_read(r, "found", p, u, d)
    \/ \E r \in EditSlots : update_commit(r)
    \/ \E p \in PostIds, u \in UserIds : delete_post("found", p, u)

SpecRace == InitPosts /\ [][NextRace]_vars

\* SpecTypes: one post of one type, addressed through the endpoints of both
\* types by its owner and by the other user.
TypeForms == {FullForm("b"), NoData}

NextTypes ==
    \/ /\ Cardinality(DOMAIN posts) < MaxPostsAtOnce
       /\ \E t \in LifeTypes, u \in UserIds : create_post(t, u, FullForm("a"), NoImage)
    \/ \E t \in LifeTypes, p \in PostIds, u \in UserIds, d \in TypeForms :
          update_post(t, p, u, d, NoImage)
    \/ \E t \in LifeTypes, p \in PostIds, u \in UserIds : delete_post(t, p, u)
    \/ \E t \in LifeTypes, p \in PostIds : get_post(t, p)
    \/ \E t \in LifeTypes, p \in PostIds, u \in UserIds, d \in CommentBodies :
          add_comment(t, p, u, d)
    \/ \E t \in LifeTypes, p \in PostIds : get_comments(t, p)

SpecTypes == InitPosts /\ [][NextTypes]_vars

\* SpecFiles: posts created and updated with and without an uploaded image,
\* two uploads carrying different content under names that secure_filename
\* maps to the same file, valid and empty forms, and the ordinary user's
\* account deleted while its token lives on.
UploadImages == Images \cup {[filename |-> "a.png", content |-> "c2"]}
FileForms(text) == {FullForm(text), NoData}

NextFiles ==
    \/ \E t \in LifeTypes, u \in UserIds, d \in FileForms("a"), i \in UploadImages :
          create_post(t, u, d, i)
    \/ \E t \in LifeTypes, p \in PostIds, u \in UserIds, d \in FileForms("b"),
          i \in UploadImages : update_post(t, p, u, d, i)
    \/ \E t \in LifeTypes, p \in PostIds, u \in UserIds : delete_post(t, p, u)
    \/ delete_user(1, 2)

SpecFiles == InitPosts /\ [][NextFiles]_vars

\* SpecEscalation: every way an account may try to gain the is_admin flag.
\* The one administrator can promote and demote (itself included, which
\* leaves no administrator); accounts register, with and without an
\* is_admin key in the body, log in, refresh, reset their password, post and
\* comment, and call the two admin endpoints that write the flag.
EscalationBodies ==
    {[email |-> "e2", username |-> "n2", password |-> "p1"],
     [email |-> "e2", username |-> "n2", password |-> "p1", is_admin |-> TRUE]}
EscalationResetBodies == {[password |-> "p1"], [password |-> "p1", is_admin |-> TRUE]}

NextEscalation ==
    \/ \E d \in EscalationBodies : register(d)
    \/ \E e \in Emails : login([email |-> e, password |-> "p1"])
    \/ \E tok \in BearerTokens : refresh_token(tok)
    \/ /\ BagCardinality(mail) < MaxResetMails
       /\ \E e \in Emails : request_password_reset([email |-> e])
    \/ \E tok \in BagToSet(mail), d \in EscalationResetBodies : reset_password(tok, d)
    \/ /\ Cardinality(DOMAIN posts) < MaxPostsAtOnce
       /\ \E u \in UserIds : create_post("found", u, FullForm("a"), NoImage)
    \/ \E p \in PostIds, u \in UserIds : add_comment("found", p, u, [content |-> "c1"])
    \/ \E u \in UserIds, d \in EscalationBodies : create_user(u, d)
    \/ \E u \in UserIds, v \in UserIds, a \in BOOLEAN : update_user(u, v, [is_admin |-> a])

SpecEscalation == Init /\ [][NextEscalation]_vars

\* ================================================================== claims
RowOfType(t, p) == p \in DOMAIN posts /\ posts[p].post_type = t
Missing(data) == {f \in Fields : f \notin DOMAIN data \/ data[f] = ""}
FieldError(f) ==
    CASE f = "description" -> "Description is required."
      [] f = "location" -> "Location is required."
      [] f = "contact_info" -> "Contact information is required."
Entries(seq) == {seq[i] : i \in 1..Len(seq)}

\* C1: for each post type, update and delete of an existing post by a
\* requester who is not its owner (an administrator included) answer 403
\* and leave the posts table as it was; on an id with no post they answer 404.
C1_NonOwnerForbidden ==
    [][resp'.op \in {"update", "delete"} =>
          /\ (RowOfType(resp'.ptype, resp'.id) /\ posts[resp'.id].user_id # resp'.uid)
                => (resp'.status = 403 /\ posts' = posts)
          /\ resp'.id \notin DOMAIN posts
                => (resp'.status = 404 /\ posts' = posts)]_vars

\* An administrator who does not own the post was refused.
C1_Witness ==
    /\ resp.op \in {"update", "delete"}
    /\ resp.status = 403
    /\ resp.id \in DOMAIN posts
    /\ posts[resp.id].user_id # resp.uid
    /\ resp.uid \in DOMAIN users /\ users[resp.uid].is_admin

\* C2: an update by the owner succeeds for every non-empty subset of the
\* three fields supplied (with non-empty values); the supplied fields take the
\* new values and the others keep theirs.
C2_PartialUpdate ==
    [][(/\ resp'.op = "update"
        /\ RowOfType(resp'.ptype, resp'.id)
        /\ posts[resp'.id].user_id = resp'.uid
        /\ DOMAIN resp'.data \cap Fields # {}
        /\ \A f \in DOMAIN resp'.data : resp'.data[f] # "")
          => /\ resp'.status = 200
             /\ resp'.id \in DOMAIN posts'
             /\ \A f \in Fields :
                   posts'[resp'.id][f] = IF f \in DOMAIN resp'.data THEN resp'.data[f]
                                         ELSE posts[resp'.id][f]]_vars

\* C3: every post's user_id is the id of a user that exists.
C3_PostOwnerExists == \A p \in DOMAIN posts : posts[p].user_id \in DOMAIN users

\* An administrator tried to delete a user who owns a post.
C3_Witness ==
    /\ resp.op \in {"deleteUser", "usersDeleteUser"}
    /\ resp.status = 500
    /\ \E p \in DOMAIN posts : posts[p].user_id = resp.id

\* C4: every comment's post_id is the id of a post that exists.
C4_CommentPostExists == \A c \in DOMAIN comments : comments[c].post_id \in DOMAIN posts

\* The owner tried to delete a post that has a comment.
C4_Witness ==
    /\ resp.op = "delete"
    /\ resp.status = 500
    /\ \E c \in DOMAIN comments : comments[c].post_id = resp.id

\* C5: a delete by the owner of an existing post succeeds, with or without
\* comments on the post, and the post is gone afterwards.
C5_OwnerDeleteSucceeds ==
    [][(/\ resp'.op = "delete"
        /\ RowOfType(resp'.ptype, resp'.id)
        /\ posts[resp'.id].user_id = resp'.uid)
          => (resp'.status = 200 /\ resp'.id \notin DOMAIN posts')]_vars

\* C6: every admin endpoint answers 403 to a caller whose user row is absent
\* or not an administrator, whatever the body and the target id, and changes
\* nothing in the store.
AdminOps == {"analytics", "listUsers", "getUser", "createUser", "updateUser",
             "deleteUser", "getUserActivity"}
C6_NonAdminForbidden ==
    [][(/\ resp'.op \in AdminOps
        /\ ~(resp'.uid \in DOMAIN users /\ users[resp'.uid].is_admin))
          => (resp'.status = 403 /\ store' = store)]_vars

\* A caller whose account was deleted after login was refused on createUser.
C6_Witness ==
    /\ resp.op = "createUser"
    /\ resp.status = 403
    /\ resp.uid \notin DOMAIN users

\* C7: for each post type, a create whose form misses (lacks, or holds empty)
\* some of the three fields answers 400 with one error per missing field,
\* naming exactly the missing fields, and adds no post.
C7_AllMissingNamed ==
    [][(resp'.op = "create" /\ Missing(resp'.data) # {})
          => /\ resp'.status = 400
             /\ Entries(resp'.errors) = {FieldError(f) : f \in Missing(resp'.data)}
             /\ Len(resp'.errors) = Cardinality(Missing(resp'.data))
             /\ posts' = posts]_vars

\* A create that missed two fields was refused with two errors.
C7_Witness ==
    /\ resp.op = "create"
    /\ resp.status = 400
    /\ Cardinality(Missing(resp.data)) = 2
    /\ Len(resp.errors) = 2

\* C8: a create (with the three fields filled) under a token whose user row
\* no longer exists answers 404 and adds no post.
C8_StaleOwnerNotFound ==
    [][(/\ resp'.op = "create"
        /\ Missing(resp'.data) = {}
        /\ resp'.uid \notin DOMAIN users)
          => (resp'.status = 404 /\ posts' = posts)]_vars

\* A user who logged in and was then deleted tried to create a post.
C8_Witness ==
    /\ resp.op = "create"
    /\ resp.status = 404
    /\ resp.uid \in tokens
    /\ resp.uid \notin DOMAIN users

\* C9 as claimed: addComment (with a JSON body) on a post id that does not
\* exist answers 404 whatever the content; on an existing post with empty or
\* absent content it answers 400; neither writes a comment.
EmptyContent(data) == "content" \notin DOMAIN data \/ data["content"] = ""
C9_MissingPostAlways404 ==
    [][(resp'.op = "addComment" /\ ~IsNone(resp'.data))
          => /\ ~RowOfType(resp'.ptype, resp'.id)
                   => (resp'.status = 404 /\ comments' = comments)
             /\ (RowOfType(resp'.ptype, resp'.id) /\ EmptyContent(resp'.data))
                   => (resp'.status = 400 /\ comments' = comments)]_vars

\* C9 as the code has it: with a JSON body, empty or absent content answers
\* 400 whether or not the post exists; non-empty content on a post id that
\* does not exist answers 404; neither writes a comment.
C9_ContentCheckedFirst ==
    [][(resp'.op = "addComment" /\ ~IsNone(resp'.data))
          => /\ EmptyContent(resp'.data)
                   => (resp'.status = 400 /\ comments' = comments)
             /\ (~EmptyContent(resp'.data) /\ ~RowOfType(resp'.ptype, resp'.id))
                   => (resp'.status = 404 /\ comments' = comments)]_vars

\* An empty comment on a post id that does not exist was answered 400.
C9_Witness ==
    /\ resp.op = "addComment"
    /\ resp.status = 400
    /\ ~IsNone(resp.data)
    /\ EmptyContent(resp.data)
    /\ resp.id \notin DOMAIN posts

\* C10: a successful addComment stores the comment under that post and
\* author; a stored comment stays as it is while its post exists; and
\* listComments of an existing post answers exactly the comments stored under
\* that post id, each with its author's username, and 404 for a missing post.
C10_CommentListed ==
    [][/\ (resp'.op = "addComment" /\ resp'.status = 201)
             => \E c \in DOMAIN comments' \ DOMAIN comments :
                   comments'[c] = [content |-> resp'.data["content"],
                                   user_id |-> resp'.uid, post_id |-> resp'.id]
       /\ \A c \in DOMAIN comments :
             comments[c].post_id \in DOMAIN posts'
                => /\ c \in DOMAIN comments'
                   /\ comments'[c] = comments[c]
                   /\ comments[c].user_id \in DOMAIN users'
       /\ resp'.op = "listComments"
             => IF resp'.id \in DOMAIN posts' /\ posts'[resp'.id].post_type = resp'.ptype
                THEN /\ resp'.status = 200
                     /\ resp'.body =
                           {[id |-> c, content |-> comments'[c].content,
                             username |-> users'[comments'[c].user_id].username] :
                              c \in {d \in DOMAIN comments' : comments'[d].post_id = resp'.id}}
                ELSE resp'.status = 404]_vars

\* A comment was listed under its post, with the username its author was
\* renamed to, while another post exists.
C10_Witness ==
    /\ resp.op = "listComments"
    /\ resp.status = 200
    /\ \E r \in resp.body : r.username = "n3"
    /\ Cardinality(DOMAIN posts) = 2

\* C11: in every reachable state, however register, admin createUser and
\* admin updateUser requests follow one another, no two users have the same
\* email and no two users have the same username.
C11_UniqueEmailAndUsername ==
    \A u \in DOMAIN users, v \in DOMAIN users :
       u # v => /\ users[u].email # users[v].email
                /\ users[u].username # users[v].username

\* An updateUser that asked for a username another user holds was refused by
\* the database, both users still there.
C11_Witness ==
    /\ resp.op = "updateUser"
    /\ ~resp.handled
    /\ "username" \in DOMAIN resp.data
    /\ \E v \in DOMAIN users : v # resp.id /\ users[v].username = resp.data["username"]
    /\ resp.id \in DOMAIN users

\* C12: register with an email some user already holds answers 400 and
\* leaves the users table as it was; register with an email nobody holds and
\* a non-empty password (username given or not) answers 201 and adds exactly
\* one user, with that email and is_admin false.
C12_RegisterCreatesUser ==
    [][(resp'.op = "register" /\ ~IsNone(resp'.data) /\ ~Falsy(Get(resp'.data, "email")))
          => /\ UserByEmail(resp'.data["email"]) # {}
                   => (resp'.status = 400 /\ users' = users)
             /\ (UserByEmail(resp'.data["email"]) = {} /\ ~Falsy(Get(resp'.data, "password")))
                   => /\ resp'.status = 201
                      /\ \E id \in DOMAIN users' \ DOMAIN users :
                            /\ DOMAIN users' = DOMAIN users \cup {id}
                            /\ users'[id].email = resp'.data["email"]
                            /\ users'[id].is_admin = FALSE
                      /\ \A u \in DOMAIN users : users'[u] = users[u]]_vars

\* C13: a login with both fields filled answers 200 and issues the tokens
\* of user u exactly when u holds that email and the password is the one
\* last set for u, and answers 401 issuing nothing otherwise; the password
\* last set is the one given when the row was created (register, createUser)
\* or in the last successful reset_password, nothing else changes it; and
\* right after a successful reset any other password for that user gets 401.
C13_LoginIffCurrentPassword ==
    [][/\ (/\ resp'.op = "login"
           /\ ~IsNone(resp'.data)
           /\ ~Falsy(Get(resp'.data, "email"))
           /\ ~Falsy(Get(resp'.data, "password")))
             => IF \E u \in DOMAIN users :
                      /\ users[u].email = resp'.data["email"]
                      /\ users[u].password_hash = <<"pbkdf2", resp'.data["password"]>>
                THEN /\ resp'.status = 200
                     /\ resp'.uid \in DOMAIN users
                     /\ users[resp'.uid].email = resp'.data["email"]
                     /\ tokens' = tokens \cup {resp'.uid}
                ELSE resp'.status = 401 /\ tokens' = tokens
       /\ \A u \in DOMAIN users \cap DOMAIN users' :
             users'[u].password_hash # users[u].password_hash
                => /\ resp'.op = "resetPassword"
                   /\ resp'.status = 200
                   /\ resp'.id = u
                   /\ users'[u].password_hash = <<"pbkdf2", resp'.data.json["password"]>>
       /\ \A u \in DOMAIN users' \ DOMAIN users :
             /\ resp'.op \in {"register", "createUser"}
             /\ users'[u].password_hash = <<"pbkdf2", resp'.data["password"]>>
       /\ (/\ resp.op = "resetPassword"
           /\ resp.status = 200
           /\ resp'.op = "login"
           /\ ~IsNone(resp'.data)
           /\ Get(resp'.data, "email") = users[resp.id].email
           /\ Get(resp'.data, "password") # resp.data.json["password"])
             => resp'.status # 200]_vars

\* The administrator's password was reset to p2 and a login with the old
\* password p1 was answered 401.
C13_Witness ==
    /\ resp.op = "login"
    /\ resp.status = 401
    /\ resp.data = [email |-> "e1", password |-> "p1"]
    /\ \E u \in DOMAIN users :
          /\ users[u].email = "e1"
          /\ users[u].password_hash = <<"pbkdf2", "p2">>

AccessOps == ProtectedOps \cup {"me"}
TokenType(r) == Get(r.data, "token_type")

C17_CurrentUser ==
    [][(resp'.op = "me" /\ TokenType(resp') = "access")
          => IF resp'.uid \notin DOMAIN users
             THEN resp'.status = 404 /\ resp'.body = {}
             ELSE /\ resp'.status = 200
                  /\ resp'.body = {[id |-> resp'.uid,
                                    username |-> users[resp'.uid].username,
                                    email |-> users[resp'.uid].email,
                                    is_admin |-> users[resp'.uid].is_admin,
                                    created_at |-> users[resp'.uid].created_at]}
                  /\ \A r \in resp'.body : "password_hash" \notin DOMAIN r]_vars

\* /me was called with the access token of a user who logged in and was
\* deleted afterwards.
C17_Witness ==
    /\ resp.op = "me"
    /\ TokenType(resp) = "access"
    /\ resp.status = 404
    /\ resp.uid \in tokens
    /\ resp.uid \notin DOMAIN users

\* A token reset_password must refuse, said without the decoder: not a
\* token at all, not signed with SECRET_KEY, past its expiry, or naming a
\* user id with no row.
BadResetToken(token) ==
    \/ "reset_password" \notin DOMAIN token
    \/ token.sig # "SECRET_KEY"
    \/ token.exp <= now
    \/ token.reset_password \notin DOMAIN users

\* C15: reset_password/<token> with a token that is expired, carries a wrong
\* signature, is malformed or names a user that no longer exists answers
\* the one response 400 'Invalid or expired token', whatever the body (a
\* missing password included), and changes no password.
C15_BadTokenSameAnswer ==
    [][(resp'.op = "resetPassword" /\ BadResetToken(resp'.data.token))
          => /\ resp'.status = 400
             /\ resp'.errors = <<"Invalid or expired token">>
             /\ resp'.body = {}
             /\ resp'.id = 0
             /\ resp'.handled
             /\ users' = users]_vars

\* A mailed token whose user still exists was presented after its expiry,
\* with a good new password, and refused.
C15_Witness ==
    /\ resp.op = "resetPassword"
    /\ resp.status = 400
    /\ resp.data.json = [password |-> "p2"]
    /\ BagIn(resp.data.token, mail)
    /\ resp.data.token.exp <= now
    /\ resp.data.token.reset_password \in DOMAIN users

\* C16: once a reset_password call has changed the password with a token,
\* a reset_password call presenting the same token (here: the very next
\* request) is refused and changes no password.
C16_ResetTokenOneTime ==
    [][(/\ resp.op = "resetPassword"
        /\ resp.status = 200
        /\ resp'.op = "resetPassword"
        /\ resp'.data.token = resp.data.token)
          => (resp'.status = 400 /\ users' = users)]_vars

\* "3 per hour" on request_password_reset; an hour is six token lifetimes.
ResetLimit == 3
HourTicks == 6
RecentMail ==
    [t \in {x \in BagToSet(mail) : x.exp - ResetLifetime > now - HourTicks} |-> mail[t]]

\* C18: once the caller's reset requests of the last hour have reached the
\* limit of 3 (at least as many as the reset mails sent in that hour), a
\* further password-reset request (here: for a registered email) is rejected
\* (429) before the handler runs and sends no mail.
C18_ResetRequestsLimited ==
    [][(/\ resp'.op = "requestReset"
        /\ ~IsNone(resp'.data)
        /\ UserByEmail(Get(resp'.data, "email")) # {}
        /\ BagCardinality(RecentMail) >= ResetLimit)
          => (resp'.status = 429 /\ mail' = mail)]_vars

\* C19: createUser by an administrator with an email some user holds answers
\* 400 and adds no user; with an email nobody holds and a non-empty password
\* (here: and a username nobody holds) it answers 201 and adds exactly one
\* user, with the is_admin flag asked for (false when none is).
C19_CreateUserCreates ==
    [][(/\ resp'.op = "createUser"
        /\ is_admin(resp'.uid)
        /\ ~IsNone(resp'.data)
        /\ ~Falsy(Get(resp'.data, "email")))
          => /\ UserByEmail(resp'.data["email"]) # {}
                   => (resp'.status = 400 /\ users' = users)
             /\ (/\ UserByEmail(resp'.data["email"]) = {}
                 /\ ~Falsy(Get(resp'.data, "password"))
                 /\ ~Falsy(Get(resp'.data, "username"))
                 /\ \A u \in DOMAIN users : users[u].username # resp'.data["username"])
                   => /\ resp'.status = 201
                      /\ \E id \in DOMAIN users' \ DOMAIN users :
                            /\ DOMAIN users' = DOMAIN users \cup {id}
                            /\ users'[id].email = resp'.data["email"]
                            /\ users'[id].is_admin = GetD(resp'.data, "is_admin", FALSE)]_vars

\* C20: deleteUser by an administrator on an existing user id answers 200,
\* and afterwards that user is gone and no post and no comment of that user
\* is left.
C20_DeleteUserCascades ==
    [][(resp'.op = "deleteUser" /\ is_admin(resp'.uid) /\ resp'.id \in DOMAIN users)
          => /\ resp'.status = 200
             /\ resp'.id \notin DOMAIN users'
             /\ \A q \in DOMAIN posts' : posts'[q].user_id # resp'.id
             /\ \A c \in DOMAIN comments' : comments'[c].user_id # resp'.id]_vars

\* The text contains the value, letter case ignored.
ContainsIgnoringCase(text, value) ==
    \E i \in 1..(Len(Chars(text)) + 1) :
       /\ i + Len(Chars(value)) - 1 <= Len(Chars(text))
       /\ SubSeq(lower(Chars(text)), i, i + Len(Chars(value)) - 1) = lower(Chars(value))

\* C21: search over one type answers with exactly the posts of that type
\* whose description contains the keyword, case ignored, and whose location
\* contains the location; a parameter that is empty or absent filters
\* nothing, so with both empty the answer is that of getAll.
C21_SearchReturnsContaining ==
    [][resp'.op = "search"
          => /\ resp'.status = 200
             /\ resp'.body =
                  {post_data(q) : q \in
                     {x \in PostsOfType(resp'.ptype) :
                        /\ ContainsIgnoringCase(posts[x].description,
                                                GetD(resp'.data, "keyword", ""))
                        /\ ContainsIgnoringCase(posts[x].location,
                                                GetD(resp'.data, "location", ""))}}]_vars

\* C22: every handler turns every failure into a JSON 500 answer with a
\* message; no request ends in an exception that no handler caught.
C22_NoUncaughtException == resp.handled

\* C23: nothing guards the write step of an update against a write made
\* since its read: when the post still exists, the commit answers 200 and
\* puts every field the request changed into the record, whether or not the
\* record still is what the request read.
C23_NoVersionCheck ==
    [][(resp'.op = "updateCommit" /\ resp'.id \in DOMAIN posts)
          => /\ resp'.status = 200
             /\ \A f \in Fields :
                   \A seen \in resp'.body :
                      posts'[resp'.id][f] =
                         IF resp'.data[f] # seen[f] THEN resp'.data[f]
                         ELSE posts[resp'.id][f]]_vars

\* C23 (witness): a lost update.  Two updates by the owner read the same
\* record, both answered 200, and the record holds the fields of one of
\* them and no field of the other.
C23_LostUpdate ==
    \E r1 \in DOMAIN edits, r2 \in DOMAIN edits :
       /\ r1 # r2
       /\ edits[r1].status = 200 /\ edits[r2].status = 200
       /\ edits[r1].id = edits[r2].id
       /\ edits[r1].seen = edits[r2].seen
       /\ edits[r1].uid = edits[r1].seen.user_id /\ edits[r2].uid = edits[r2].seen.user_id
       /\ edits[r1].id \in DOMAIN posts
       /\ resp.op = "updateCommit"
       /\ \A f \in Fields :
             /\ posts[edits[r1].id][f] = edits[r2].data[f]
             /\ posts[edits[r1].id][f] # edits[r1].data[f]
             /\ edits[r1].data[f] # edits[r1].seen[f]

ReadOps == {"get", "getAll", "search"}
OwnerSecrets == {"email", "password", "password_hash"}

\* C24: getAll, getById and search are answered without a token; every post
\* they return carries the username its owner has now, and neither the
\* owner's email nor the password hash; getById answers 404 exactly when no
\* post of the endpoint's type has the id, and 200 otherwise.
C24_ReadsShowOwnerName ==
    [][resp'.op \in ReadOps
          => /\ resp'.uid = 0
             /\ resp'.status \in {200, 404}
             /\ resp'.op = "get"
                  => /\ resp'.status = 404 <=> ~RowOfType(resp'.ptype, resp'.id)
                     /\ resp'.status = 200 => \E b \in resp'.body : b.id = resp'.id
             /\ resp'.op # "get" => resp'.status = 200
             /\ \A b \in resp'.body :
                   /\ RowOfType(resp'.ptype, b.id)
                   /\ b.username = users[posts[b.id].user_id].username
                   /\ DOMAIN b \cap OwnerSecrets = {}]_vars

\* C24 (witness): each kind of read has returned a post under the name the
\* administrator gave its owner after registration.
C24_Witness ==
    /\ resp.op \in ReadOps
    /\ resp.status = 200
    /\ \E b \in resp.body :
          /\ b.username = "n3"
          /\ users[posts[b.id].user_id].username = "n3"

TypedOps == {"get", "update", "delete", "addComment", "listComments"}
\* The request went to the endpoint of a type other than the post's.
OtherTypeEndpoint(r) == r.id \in DOMAIN posts /\ posts[r.id].post_type # r.ptype

\* C25 (as stated): getById, update, delete, addComment and listComments on
\* a post's id through the endpoint of another type answer 404 and change
\* nothing.
C25_OtherTypeNotFound ==
    [][(resp'.op \in TypedOps /\ OtherTypeEndpoint(resp'))
          => (resp'.status = 404 /\ store' = store)]_vars

\* C25 (amended): the same, for addComment when the comment has content; an
\* addComment without content answers 400 (500 without a JSON body) before
\* the post is looked up.  Nothing changes in either case.
C25_OtherTypeNotFoundAfterContent ==
    [][(resp'.op \in TypedOps /\ OtherTypeEndpoint(resp'))
          => /\ store' = store
             /\ IF resp'.op = "addComment" /\ IsNone(resp'.data) THEN resp'.status = 500
                ELSE IF resp'.op = "addComment" /\ EmptyContent(resp'.data)
                     THEN resp'.status = 400
                ELSE resp'.status = 404]_vars

\* C25 (witness): the owner of a post has sent an update, a deletion or a
\* comment with content to the other type's endpoint and got 404.
C25_Witness ==
    /\ resp.op \in {"update", "delete", "addComment"}
    /\ OtherTypeEndpoint(resp)
    /\ posts[resp.id].user_id = resp.uid
    /\ resp.status = 404

\* C26: a create request answered with an error (400, 404 or 500) leaves
\* the posts table and the stored files as they were.
C26_FailedCreateWritesNothing ==
    [][(resp'.op = "create" /\ resp'.status \in {400, 404, 500})
          => (posts' = posts /\ files' = files)]_vars

\* C27: each update and each create gets the one answer of the first check
\* that fails: on update 404 for a missing id whatever the payload, else 403
\* for a requester who is not the owner whatever the payload, else 400 for
\* a form with a missing field; on create 400 for such a form, else 404 for
\* a requester whose account is gone.
C27_ChecksOrdered ==
    [][/\ resp'.op = "update"
            => resp'.status =
                  IF ~RowOfType(resp'.ptype, resp'.id) THEN 404
                  ELSE IF posts[resp'.id].user_id # resp'.uid THEN 403
                  ELSE IF Missing(resp'.data) # {} THEN 400
                  ELSE 200
       /\ resp'.op = "create"
            => resp'.status =
                  IF Missing(resp'.data) # {} THEN 400
                  ELSE IF resp'.uid \notin DOMAIN users THEN 404
                  ELSE 201]_vars

\* C27 (witness): a requester who is not the owner has sent an update with
\* an empty form to an existing post and got 403.
C27_Witness ==
    /\ resp.op = "update"
    /\ RowOfType(resp.ptype, resp.id)
    /\ posts[resp.id].user_id # resp.uid
    /\ Missing(resp.data) # {}
    /\ resp.status = 403

Admins(rows) == {u \in DOMAIN rows : rows[u].is_admin}

\* C28: whenever some account has the is_admin flag that did not have it
\* just before, the request was createUser or updateUser and its caller was
\* an administrator just before; in particular, while no account is an
\* administrator no request of any kind makes one.
C28_NoEscalation ==
    [][/\ (\E u \in Admins(users') : u \notin Admins(users))
            => /\ resp'.op \in {"createUser", "updateUser"}
               /\ resp'.uid \in Admins(users)
       /\ Admins(users) = {} => Admins(users') = {}]_vars

\* C28 (witness): the administrator has promoted the account that had
\* registered asking for is_admin and had not got it.
C28_Witness ==
    /\ resp.op = "updateUser"
    /\ resp.status = 200
    /\ resp.uid # resp.id
    /\ resp.data = [is_admin |-> TRUE]
    /\ resp.id \in Admins(users)

AdminOnlyOps == AdminOps \cup {"usersListUsers", "usersDeleteUser"}

\* C29: the admin check goes by the caller's stored record at the time of
\* the request: a request to an admin-only endpoint of admins.py or
\* users.py, made with a token that is still accepted but whose account is
\* by now not an administrator or is gone, answers 403 and changes nothing.
C29_StoredFlagDecides ==
    [][(/\ resp'.op \in AdminOnlyOps
        /\ resp'.uid \in tokens
        /\ resp'.uid \notin Admins(users))
          => (resp'.status = 403 /\ store' = store /\ tokens' = tokens)]_vars

\* C29 (witness): the seeded administrator logged in, was demoted by
\* updateUser, and was then refused with the same token.
C29_Witness ==
    /\ resp.op \in AdminOnlyOps
    /\ resp.uid = 1
    /\ 1 \in tokens
    /\ 1 \in DOMAIN users
    /\ users[1].username = "n1"
    /\ ~users[1].is_admin
    /\ resp.status = 403

\* C30: the file a post's image field names keeps its content through every
\* request other than a create or update of that very post.
C30_ImageKeptByOtherPosts ==
    [][\A q \in DOMAIN posts :
          (/\ posts[q].image # NULL
           /\ q \in DOMAIN posts'
           /\ ~(resp'.op \in {"create", "update"} /\ resp'.id = q))
             => /\ posts'[q].image = posts[q].image
                /\ posts[q].image \in DOMAIN files'
                /\ files'[posts[q].image] = files[posts[q].image]]_vars

====
